---- MODULE Spec2Model ----
(***************************************************************************)
(* Crawl orchestrator of the AutoRia scraper.                              *)
(*                                                                         *)
(* The model follows app/scraper/enhanced_playwright_scraper.py, the       *)
(* orchestrator that both triggers (the API endpoint in app/api/routes.py  *)
(* and the daily job in app/scheduler.py) start.  Each trigger owns one    *)
(* run; the two runs share the process-wide settings object and the cars   *)
(* table, and each has its own database session and its own browser.       *)
(***************************************************************************)
EXTENDS Integers, Sequences, FiniteSets, TLC

VARIABLES
    site,               \* the crawled site (fixed for a behaviour)
    seed,               \* the process's string-hash seed: fixes the order of list(set(...))
    MAX_PAGES,          \* settings.MAX_PAGES
    MAX_TICKETS_PER_RUN,\* settings.MAX_TICKETS_PER_RUN (mutable through the API)
    rows,               \* the cars table: a set of rows [url, nth, datetime_found]
    now,                \* the database clock (func.now())
    pc,                 \* position of each run
    processed_tickets,  \* local of run_enhanced_playwright_scraper
    processed_pages,    \* local of run_enhanced_playwright_scraper
    current_url,        \* local of run_enhanced_playwright_scraper
    car_links,          \* links returned by parse_car_listing_page for the current page
    idx,                \* position of the for loop in car_links
    playwright,         \* local: TRUE when bound to the driver handle, FALSE when None
    browser,            \* local: TRUE when bound to the browser handle, FALSE when None
    held,               \* handles the run has acquired and not released
    reason,             \* why the run left its loop
    raised,             \* exception that left run_enhanced_playwright_scraper, "none" if none
    faults,             \* number of failures the environment has produced so far
    hist,               \* per-run observations used to state the properties
    shown,              \* the document each run's browser page displays
    html,               \* content handed to the extractors
    extracted,          \* what the extractors returned for html
    shutdown,           \* the application has been told to shut down
    variant,            \* the scraper variant whose process_car_page is followed
    ipc,                \* position of that process_car_page
    requests,           \* network requests the item step has issued, in order
    phone_number,       \* local of process_car_page: what extract_phone_number returned
    tried,              \* steps of extract_phone_number that were attempted
    open_pages,         \* extra pages of the browser context that are open
    MAX_CONCURRENT_REQUESTS,  \* settings.MAX_CONCURRENT_REQUESTS
    current_page_url,   \* local of run_scraper: the listing URL to process
    page_count,         \* local of run_scraper: listing pages completed
    lpc,                \* position of run_scraper and its process_listing_page
    attempt,            \* loop variable of the fetch_page call for the listing page
    tasks,              \* the item tasks of the listing page: url, position, attempt
    semaphore,          \* value of the semaphore of process_listing_page
    slept               \* the retry sleeps of fetch_page so far

(* The state of one process_car_page followed on its own *)
item_vars == <<variant, ipc, requests, phone_number, tried, open_pages>>

(* The state of the variants that no trigger starts *)
proto_vars == <<MAX_CONCURRENT_REQUESTS, current_page_url, page_count, lpc,
                attempt, tasks, semaphore, slept>>

variant_vars == <<item_vars, proto_vars>>

vars == <<site, seed, MAX_PAGES, MAX_TICKETS_PER_RUN, rows, now, pc,
          processed_tickets, processed_pages, current_url, car_links, idx,
          playwright, browser, held, reason, raised, faults, hist, shown,
          html, extracted, shutdown, variant_vars>>

----------------------------------------------------------------------------
(* Bounds of the model *)

MaxPagesQuota == 2      \* settings.MAX_PAGES ranges over 0..MaxPagesQuota
MaxTicketsQuota == 2    \* the configured MAX_TICKETS_PER_RUN; overrides range over 0..MaxTicketsQuota
ScenarioQuota == 6      \* the item quota of the end-to-end scenario
MaxFaults == 1          \* failures of the site, the browser and the database per behaviour
MaxItems == 2           \* item blocks of a results page handed to the listing extractor
MaxMockIdx == 1         \* index of a listing item in the mock-data processing

----------------------------------------------------------------------------
(* The two triggers, each owning one run *)

Runs == {"api", "sched"}

Other(r) == IF r = "api" THEN "sched" ELSE "api"

NoUrl == "None"   \* Python None where a listing URL is expected

(* settings.AUTO_RIA_START_URL: the first listing page of the site *)
AUTO_RIA_START_URL == "p1"

----------------------------------------------------------------------------
(* Sites.  A site gives, per listing page, the detail links found in its   *)
(* item blocks (in document order) and the page its next link points to.   *)

SiteNames == {"chain", "self", "back", "gap", "mixed"}

SiteItems(s) ==
    CASE s = "chain"    -> [p1 |-> <<"u1", "u2">>, p2 |-> <<"u2", "u3">>]
      [] s = "self"     -> [p1 |-> <<"u1">>]
      [] s = "back"     -> [p1 |-> <<"u1">>, p2 |-> <<"u4">>]
      [] s = "gap"      -> [p1 |-> <<>>, p2 |-> <<"u1", "u2">>]
      [] s = "mixed"    -> [p1 |-> <<"u3", "u1">>]
      [] s = "trio"     -> [p1 |-> <<"u1", "u2", "u3">>]
      [] s = "scenario" -> [p1 |-> <<"a1", "a2", "a3", "a4", "a5">>,
                            p2 |-> <<"b1", "b2", "b3">>]

SiteNext(s) ==
    CASE s = "chain"    -> [p1 |-> "p2", p2 |-> NoUrl]
      [] s = "self"     -> [p1 |-> "p1"]
      [] s = "back"     -> [p1 |-> "p2", p2 |-> "p1"]
      [] s = "gap"      -> [p1 |-> "p2", p2 |-> NoUrl]
      [] s = "mixed"    -> [p1 |-> NoUrl]
      [] s = "trio"     -> [p1 |-> NoUrl]
      [] s = "scenario" -> [p1 |-> "p2", p2 |-> NoUrl]

(* What the detail page of a URL holds: "loc" pages carry a location       *)
(* element, so parse_car_detail_page adds a "location" key to car_data;    *)
(* "noid" URLs do not match auto_([^.]+)\.html.                            *)
DetailKind(u) ==
    CASE u = "u3" -> "loc"
      [] u = "u4" -> "noid"
      [] OTHER    -> "ok"

----------------------------------------------------------------------------
(* Helpers *)

Reverse(q) == [i \in 1..Len(q) |-> q[Len(q) + 1 - i]]

(* list(set(car_links)): the order is the set's iteration order, which the *)
(* process's hash seed fixes; the same strings give the same order for the *)
(* life of the process.                                                    *)
SetOrder(q, sd) == IF sd = 0 THEN q ELSE Reverse(q)

(* select(Car).where(Car.url == car_url) ... scalar_one_or_none() *)
Exists(u) == \E row \in rows : row.url = u

(* CommitAccepts, were cars.url not unique *)
CommitAcceptsAlways(u) == TRUE

(* session.add(new_car); session.commit(): the unique index on cars.url    *)
(* rejects a second row for a URL                                          *)
CommitAccepts(u) == ~Exists(u)

(* The row an insert adds.  Rows are told apart by the primary key id; the *)
(* model keeps, in place of the key's value, the row's rank among the rows *)
(* of the same url.  datetime_found defaults to func.now().                *)
NewRow(u) == [url |-> u,
              nth |-> Cardinality({row \in rows : row.url = u}) + 1,
              datetime_found |-> now]

(* RowsAfterCommit, were the statement an INSERT .. ON CONFLICT DO UPDATE *)
RowsAfterUpsert(u) ==
    {row \in rows : row.url # u} \cup {[url |-> u, nth |-> 1, datetime_found |-> now]}

(* The table after session.add(new_car); session.commit(): an INSERT, that *)
(* the unique index turns into an IntegrityError and no change              *)
RowsAfterCommit(u) == IF CommitAccepts(u) THEN rows \cup {NewRow(u)} ELSE rows

(* LoopCondition, were the loop "while True" *)
LoopConditionAlways(r) == TRUE

(* while processed_pages < MAX_PAGES and processed_tickets < MAX_TICKETS_PER_RUN *)
LoopCondition(r) ==
    /\ processed_pages[r] < MAX_PAGES
    /\ processed_tickets[r] < MAX_TICKETS_PER_RUN

(* if processed_tickets >= settings.MAX_TICKETS_PER_RUN: break *)
QuotaReached(r) == processed_tickets[r] >= MAX_TICKETS_PER_RUN

InProgress(r) == pc[r] \notin {"idle", "done"}

(* An outcome of an external call that is not a failure *)
Nominal(o) == o \in {"ok", "html"}

(* What is recorded of a run, to state the properties with:               *)
(*   dispatched   calls of process_car_page                                *)
(*   listFetches  fetches of a listing page                                *)
(*   attempts     fetches of the current listing URL                       *)
(*   commits      calls of session.commit                                  *)
(*   conflicts    commits the unique index rejected                        *)
(*   skips        calls of process_car_page that found the URL stored      *)
(*   clean        no external call of the run has failed                   *)
(*   startRows, startQuota, startedAt, startSeed   the table, the item     *)
(*                quota, the clock and the process's hash seed when the    *)
(*                run was triggered                                        *)
(*   advancedFrom the listing URL the loop last went on from               *)
(*   fetched      the detail URLs the run has navigated its page to        *)
NoHist == [dispatched |-> 0, listFetches |-> 0, attempts |-> 0, commits |-> 0,
           conflicts |-> 0, skips |-> 0, clean |-> TRUE, startRows |-> {},
           startQuota |-> 0, startedAt |-> 0, startSeed |-> 0,
           advancedFrom |-> NoUrl, fetched |-> {}]

----------------------------------------------------------------------------
(* Extractors of app/scraper/parser.py and of the browser variant.  A text *)
(* is a sequence of one-character strings.                                 *)

NoText == <<"None">>    \* Python None where a text is expected
NoInt == -1             \* Python None where an integer is expected

DigitChars == <<"0", "1", "2", "3", "4", "5", "6", "7", "8", "9">>

Digits == {DigitChars[i] : i \in 1..10}

Letters == {"A", "B", "C", "D", "E", "F", "G", "H", "I", "J", "K", "L", "M",
            "N", "O", "P", "Q", "R", "S", "T", "U", "V", "W", "X", "Y", "Z"}

(* str.startswith *)
startswith(t, prefix) ==
    Len(t) >= Len(prefix) /\ SubSeq(t, 1, Len(prefix)) = prefix

(* str.lstrip('+') *)
RECURSIVE lstrip_plus(_)
lstrip_plus(t) ==
    IF t # <<>> /\ Head(t) = "+" THEN lstrip_plus(Tail(t)) ELSE t

IsPhoneChar(c) == c \in Digits \cup {"+"}

(* re.sub(r'[^\d+]', '', text): the digits and plus signs of the text *)
KeepDigitsAndPlus(t) == SelectSeq(t, IsPhoneChar)

(* parser.format_phone_number *)
format_phone_number(phone_text) ==
    LET kept == KeepDigitsAndPlus(phone_text)
        plus == IF kept # <<>> /\ ~startswith(kept, <<"+">>)
                  THEN <<"+">> \o kept ELSE kept
    IN  IF plus # <<>> /\ ~startswith(plus, <<"+", "3", "8">>)
          THEN <<"+", "3", "8">> \o lstrip_plus(plus)
          ELSE plus

(* parser.extract_phone_number: the data-phone-number attribute of the     *)
(* page's phone element, formatted                                         *)
static_phone_number(page) ==
    IF page.phone.data \notin {NoText, <<>>}
      THEN format_phone_number(page.phone.data)
      ELSE NoText

(* text.match(/^\+?\d{7,15}$/) of the visible-phone lookup *)
IsPlainNumber(t) ==
    LET d == IF t # <<>> /\ Head(t) = "+" THEN Tail(t) ELSE t IN
    /\ Len(d) \in 7..15
    /\ \A i \in 1..Len(d) : d[i] \in Digits

(* extract_phone_number of the browser variant.  ph describes what the     *)
(* page gives: whether a show-phone button is there, the data-phone-number *)
(* attribute and the text of the revealed element, the phone in the answer *)
(* of the phone endpoint, and the text of a phone element visible without  *)
(* a click.                                                                *)
extract_phone_number(ph) ==
    LET phone_clean == KeepDigitsAndPlus(ph.text) IN
    CASE ph.button /\ ph.data \notin {NoText, <<>>} -> ph.data
      [] ph.button /\ ph.text \notin {NoText, <<>>} /\ phone_clean # <<>> -> phone_clean
      [] ph.button /\ ph.api \notin {NoText, <<>>} -> ph.api
      [] ph.visible # NoText /\ IsPlainNumber(ph.visible) -> ph.visible
      [] OTHER -> NoText

(* re.search(r'[A-HJ-NPR-Z0-9]{17}', ...): the characters of a VIN *)
VinChars == (Letters \ {"I", "O", "Q"}) \cup Digits

(* parser.extract_car_vin: None without a .label-vin element; else the     *)
(* first run of 17 VIN characters of its text, or the text as it is when   *)
(* it holds no such run                                                    *)
extract_car_vin(page) ==
    LET vin_text == page.label_vin
        starts == {i \in 1..(Len(vin_text) - 16) :
                      \A j \in 0..16 : vin_text[i + j] \in VinChars}
    IN  CASE vin_text = NoText -> NoText
          [] starts # {} ->
               LET first == CHOOSE i \in starts : \A k \in starts : i <= k
               IN  SubSeq(vin_text, first, first + 16)
          [] OTHER -> vin_text

(* A mileage text is a number followed by an optional thousands marker     *)
(* ("tis" for the Ukrainian one, "tys" for the Russian one) and the unit.  *)
NoMileage == [n |-> NoInt, marker |-> "absent"]

(* re.search(r'(\d+)\s*(?:тис|тыс)\.?\s*км', text) finds a match *)
HasThousands(m) == m.marker \in {"tis", "tys"}

(* parser.extract_odometer: page.race is the text of li.item-char.js-race, *)
(* page.size18 the text around .base-information .size18                   *)
extract_odometer(page) ==
    CASE page.race # NoMileage /\ HasThousands(page.race) -> page.race.n * 1000
      [] page.size18 # NoMileage ->
           IF page.size18.marker = "tis"
             THEN page.size18.n * 1000
             ELSE page.size18.n
      [] OTHER -> NoInt

(* parser.parse_car_detail_page: a page with an item block is read as a    *)
(* listing page, any other page as a detail page                           *)
parse_car_detail_page(page, url) ==
    IF page.layout = "listing"
      THEN [url |-> url,
            odometer |-> IF page.race # NoMileage /\ HasThousands(page.race)
                           THEN page.race.n * 1000 ELSE NoInt,
            phone_number |-> NoText,
            car_vin |-> NoText]
      ELSE [url |-> url,
            odometer |-> extract_odometer(page),
            phone_number |-> static_phone_number(page),
            car_vin |-> extract_car_vin(page)]

(* The decimal digits of n *)
RECURSIVE Dec(_)
Dec(n) == IF n < 10 THEN <<DigitChars[n + 1]>>
                    ELSE Dec(n \div 10) \o <<DigitChars[(n % 10) + 1]>>

(* f"{n:0wd}" *)
ZeroPad(n, w) ==
    LET d == Dec(n) IN
    IF Len(d) >= w THEN d ELSE [i \in 1..(w - Len(d)) |-> "0"] \o d

(* process_mock_data: f"+3809999{idx:05d}" *)
MockPhone(i) == <<"+", "3", "8", "0", "9", "9", "9", "9">> \o ZeroPad(i, 5)

(* process_mock_data: f"WBAAA{idx:05d}XXX00000" *)
MockVin(i) ==
    <<"W", "B", "A", "A", "A">> \o ZeroPad(i, 5)
        \o <<"X", "X", "X", "0", "0", "0", "0", "0">>

(* urljoin("https://auto.ria.com", href) for a relative href, the href     *)
(* itself for an absolute one: both forms of a path give one URL           *)
ResolveLink(link) == link.path

(* "if car_url not in car_links: car_links.append(car_url)" over a list:   *)
(* the first occurrence of each element is kept, in the list's order       *)
Distinct(q) ==
    LET kept == {i \in 1..Len(q) : \A j \in 1..(i - 1) : q[j] # q[i]}
    IN  [k \in 1..Cardinality(kept) |->
            q[CHOOSE i \in kept : Cardinality({j \in kept : j <= i}) = k]]

(* The patterns of selectors_to_try, in their order: the patterns for an   *)
(* item block stand before the patterns for a link anywhere in the page   *)
selectors_to_try == <<"section.ticket-item", "a[href*='auto_'][href$='.html']">>

(* The URLs found through the elements that soup.select(selector) gives:   *)
(* the item blocks, each with its link, or every link to a detail page,    *)
(* those inside the item blocks and those outside (page.anchors)           *)
SelectLinks(page, selector) ==
    LET inBlocks == [i \in 1..Len(page.items) |-> ResolveLink(page.items[i])]
        outside == [i \in 1..Len(page.anchors) |-> ResolveLink(page.anchors[i])]
    IN  IF selector = selectors_to_try[1] THEN inBlocks ELSE inBlocks \o outside

(* "for selector in selectors_to_try": the loop body runs for the first k  *)
(* patterns, and each pattern with elements appends its URLs               *)
RECURSIVE LinksOfSelectors(_, _)
LinksOfSelectors(page, k) ==
    IF k = 0 THEN <<>>
    ELSE LinksOfSelectors(page, k - 1) \o SelectLinks(page, selectors_to_try[k])

(* parse_car_listing_page of the browser variant on a results page: [] for *)
(* a page whose content holds "captcha", "robot" or "detection", else the  *)
(* resolved links that the patterns find, without duplicates, in the order *)
(* of list(set(car_links))                                                 *)
ExtractCarLinks(page, sd) ==
    IF page.other_text = "robot"
      THEN <<>>
      ELSE SetOrder(Distinct(LinksOfSelectors(page, Len(selectors_to_try))), sd)

(* The results page p of site s as the run receives it: its item blocks    *)
(* link to the site's detail URLs; content is "challenge" when the site    *)
(* answered with its challenge page                                        *)
ResultsPage(s, p, content) ==
    [layout |-> "results",
     items |-> IF content = "challenge" THEN <<>>
               ELSE [i \in 1..Len(SiteItems(s)[p]) |->
                        [path |-> SiteItems(s)[p][i], absolute |-> TRUE]],
     anchors |-> <<>>,
     other_text |-> IF content = "challenge" THEN "robot" ELSE "plain"]

(* parse_car_listing_page, on the page p of site s *)
parse_car_listing_page(s, p, content, sd) ==
    ExtractCarLinks(ResultsPage(s, p, content), sd)

----------------------------------------------------------------------------
(* Initial state: the process has started, no run has been triggered *)

IdleRuns ==
    /\ now = 0
    /\ pc = [r \in Runs |-> "idle"]
    /\ processed_tickets = [r \in Runs |-> 0]
    /\ processed_pages = [r \in Runs |-> 0]
    /\ current_url = [r \in Runs |-> AUTO_RIA_START_URL]
    /\ car_links = [r \in Runs |-> <<>>]
    /\ idx = [r \in Runs |-> 1]
    /\ playwright = [r \in Runs |-> FALSE]
    /\ browser = [r \in Runs |-> FALSE]
    /\ held = [r \in Runs |-> {}]
    /\ reason = [r \in Runs |-> "none"]
    /\ raised = [r \in Runs |-> "none"]
    /\ faults = 0
    /\ hist = [r \in Runs |-> NoHist]
    /\ shown = [r \in Runs |-> "blank"]
    /\ shutdown = FALSE

(* No process_car_page is followed on its own *)
NoItem ==
    /\ variant = "none"
    /\ ipc = "none"
    /\ requests = <<>>
    /\ phone_number = <<"None">>
    /\ tried = {}
    /\ open_pages = 0

(* run_scraper has not been called *)
NoProto ==
    /\ MAX_CONCURRENT_REQUESTS = 1
    /\ current_page_url = "None"
    /\ page_count = 0
    /\ lpc = "none"
    /\ attempt = 0
    /\ tasks = <<>>
    /\ semaphore = 0
    /\ slept = {}

NoVariant == NoItem /\ NoProto

Idle == rows = {} /\ IdleRuns /\ NoVariant

(* No content has been handed to an extractor *)
NoPage == [layout |-> "none"]

NotYet == [by |-> "none"]

(* MAX_TICKETS_PER_RUN as the environment file gives it *)
ConfiguredQuota == IF site = "scenario" THEN ScenarioQuota ELSE MaxTicketsQuota

(* The two runs racing, on the small sites *)
Init ==
    /\ site \in SiteNames
    /\ seed = 0
    /\ MAX_PAGES \in 0..MaxPagesQuota
    /\ MAX_TICKETS_PER_RUN = ConfiguredQuota
    /\ Idle
    /\ html = NoPage
    /\ extracted = NotYet

(* One run after the other, on the small sites and on the two-page site of *)
(* the end-to-end scenario, under either iteration order                   *)
InitSeq ==
    /\ site \in SiteNames \cup {"scenario"}
    /\ seed \in {0, 1}
    /\ MAX_PAGES \in 0..MaxPagesQuota
    /\ MAX_TICKETS_PER_RUN = ConfiguredQuota
    /\ Idle
    /\ html = NoPage
    /\ extracted = NotYet

(* Contents handed to the extractors *)

PhoneFull == <<"+", "3", "8", "0", "5", "0", "1", "2", "3", "4", "5", "6", "7">>

PhoneLocal ==
    <<"(", "0", "5", "0", ")", " ", "1", "2", "3", "-", "4", "5", "-", "6", "7">>

PhoneBare == <<"0", "5", "0", "1", "2", "3", "4", "5", "6", "7">>

PhoneParts ==
    [button : BOOLEAN,
     data : {NoText, PhoneFull, PhoneLocal},
     text : {NoText, PhoneLocal},
     api : {NoText, PhoneBare},
     visible : {NoText, PhoneFull, PhoneBare}]

Vin17 == <<"W", "A", "U", "Z", "Z", "Z", "8", "K", "9", "B", "A", "1", "2",
           "3", "4", "5", "6">>

VinTexts == {NoText, Vin17, SubSeq(Vin17, 1, 9), <<"V", "I", "N", " ">> \o Vin17}

Mileages == [n : {120}, marker : {"tis", "tys", "none"}]

(* Pages of one item: a detail page, or a page that holds an item block of *)
(* a listing (layout "listing")                                            *)
ItemPages ==
    [layout : {"listing", "detail"},
     race : {NoMileage} \cup {m \in Mileages : m.marker # "tys"},
     size18 : {NoMileage} \cup Mileages,
     label_vin : VinTexts,
     phone : PhoneParts]

Links == [path : {"u1", "u2"}, absolute : BOOLEAN]

RECURSIVE SeqsUpTo(_, _)
SeqsUpTo(S, n) ==
    IF n = 0 THEN {<<>>}
    ELSE LET shorter == SeqsUpTo(S, n - 1) IN
         shorter \cup {Append(q, x) : q \in shorter, x \in S}

(* Results pages of up to MaxItems item blocks, one link each, with or     *)
(* without a link to a detail page outside the item blocks, with or        *)
(* without one of the words the extractor takes for a challenge in the     *)
(* rest of the content                                                     *)
ResultsPages ==
    [layout : {"results"},
     items : SeqsUpTo(Links, MaxItems),
     anchors : SeqsUpTo(Links, 1),
     other_text : {"plain", "robot"}]

(* An extractor is handed one content *)
InitParse ==
    /\ site = "chain"
    /\ seed \in {0, 1}
    /\ MAX_PAGES = 0
    /\ MAX_TICKETS_PER_RUN = ConfiguredQuota
    /\ Idle
    /\ \/ html \in ItemPages
       \/ html \in ResultsPages
    /\ extracted = NotYet

----------------------------------------------------------------------------
(* Triggers *)

(* First lines of run_enhanced_playwright_scraper: the tracking variables. *)
(* An application that is shutting down takes no request and its scheduler *)
(* thread, a daemon, fires no job.                                         *)
BeginRun(r) ==
    /\ ~shutdown
    /\ pc[r] = "idle"
    /\ pc' = [pc EXCEPT ![r] = "setup"]
    /\ processed_tickets' = [processed_tickets EXCEPT ![r] = 0]
    /\ processed_pages' = [processed_pages EXCEPT ![r] = 0]
    /\ current_url' = [current_url EXCEPT ![r] = AUTO_RIA_START_URL]
    /\ playwright' = [playwright EXCEPT ![r] = FALSE]
    /\ browser' = [browser EXCEPT ![r] = FALSE]
    /\ now' = now + 1
    /\ UNCHANGED <<variant_vars, html, extracted, shown, shutdown, site, seed, MAX_PAGES, rows, car_links, idx, held,
                   reason, raised, faults>>

(* POST /scrape/start-playwright: an optional max_tickets override is      *)
(* written to the settings object, then the run is queued.  o = -1 stands  *)
(* for a request without settings_update.                                  *)
ApiStart(o) ==
    /\ BeginRun("api")
    /\ MAX_TICKETS_PER_RUN' = IF o = -1 THEN MAX_TICKETS_PER_RUN ELSE o
    /\ hist' = [hist EXCEPT !["api"] =
                  [NoHist EXCEPT !.startRows = rows,
                                 !.startQuota = MAX_TICKETS_PER_RUN',
                                 !.startedAt = now',
                                 !.startSeed = seed]]

(* run_scraper_job: the daily job starts the same run on its own thread,   *)
(* with its own session                                                    *)
SchedStart ==
    /\ BeginRun("sched")
    /\ UNCHANGED MAX_TICKETS_PER_RUN
    /\ hist' = [hist EXCEPT !["sched"] =
                  [NoHist EXCEPT !.startRows = rows,
                                 !.startQuota = MAX_TICKETS_PER_RUN,
                                 !.startedAt = now',
                                 !.startSeed = seed]]

(* POST /config/max-tickets?max_tickets=q (1 <= q <= 500): the value is    *)
(* written to the settings object                                          *)
update_max_tickets(q) ==
    /\ MAX_TICKETS_PER_RUN' = q
    /\ UNCHANGED <<variant_vars, html, extracted, shown, shutdown, site, seed, MAX_PAGES, rows, now, pc, processed_tickets,
                   processed_pages, current_url, car_links, idx, playwright,
                   browser, held, reason, raised, faults, hist>>

(* The server is told to stop (SIGTERM, or the reloader of run.py): the    *)
(* lifespan handler logs "Application shutdown".  Nothing is said to the   *)
(* runs: the scheduled run is on a thread of its own with its own event    *)
(* loop, and the interpreter waits for that thread.                        *)
Shutdown ==
    /\ ~shutdown
    /\ shutdown' = TRUE
    /\ UNCHANGED <<variant_vars, site, seed, MAX_PAGES, MAX_TICKETS_PER_RUN, rows, now, pc,
                   processed_tickets, processed_pages, current_url, car_links,
                   idx, playwright, browser, held, reason, raised, faults, hist,
                   shown, html, extracted>>

(* The application is stopped and started again between two runs: the new  *)
(* process has another hash seed, and its settings object is read from the *)
(* environment again.  The table is in the database and stays.  (A start   *)
(* before the first run is an initial state.)                              *)
Restart ==
    /\ \E r \in Runs : pc[r] = "done"
    /\ \A r \in Runs : ~InProgress(r)
    /\ seed' = 1 - seed
    /\ MAX_TICKETS_PER_RUN' = ConfiguredQuota
    /\ shutdown' = FALSE
    /\ UNCHANGED <<variant_vars, site, MAX_PAGES, rows, now, pc, processed_tickets,
                   processed_pages, current_url, car_links, idx, playwright,
                   browser, held, reason, raised, faults, hist, shown, html,
                   extracted>>

----------------------------------------------------------------------------
(* The run: run_enhanced_playwright_scraper *)

(* Leaving the try block for the finally block *)
LeaveLoop(r, why) ==
    /\ pc' = [pc EXCEPT ![r] = "close_browser"]
    /\ reason' = [reason EXCEPT ![r] = why]

(* The environment produces outcome o of an external call made by run r *)
Outcome(r, o) ==
    /\ Nominal(o) \/ faults < MaxFaults
    /\ faults' = IF Nominal(o) THEN faults ELSE faults + 1

(* setup_browser: the driver is started, the browser launched, the context *)
(* and the page created; the four handles are bound to the run's locals    *)
(* only when all of it succeeded.  o says where it failed, if it did.      *)
SetupBrowser(r, o) ==
    /\ pc[r] = "setup"
    /\ Outcome(r, o)
    /\ held' = [held EXCEPT ![r] =
                  CASE o = "start"   -> {}
                    [] o = "launch"  -> {"playwright"}
                    [] o = "context" -> {"playwright", "browser"}
                    [] o = "ok"      -> {"playwright", "browser"}]
    /\ IF o = "ok"
         THEN /\ playwright' = [playwright EXCEPT ![r] = TRUE]
              /\ browser' = [browser EXCEPT ![r] = TRUE]
              /\ pc' = [pc EXCEPT ![r] = "loop"]
              /\ UNCHANGED reason
         ELSE /\ LeaveLoop(r, "exception")
              /\ UNCHANGED <<playwright, browser>>
    /\ shown' = [shown EXCEPT ![r] = "blank"]
    /\ hist' = [hist EXCEPT ![r].clean = @ /\ Nominal(o)]
    /\ UNCHANGED <<variant_vars, html, extracted, shutdown, site, seed, MAX_PAGES, MAX_TICKETS_PER_RUN, rows, now,
                   processed_tickets, processed_pages, current_url, car_links,
                   idx, raised>>

(* The while condition *)
LoopGuard(r) ==
    /\ pc[r] = "loop"
    /\ IF LoopCondition(r)
         THEN /\ pc' = [pc EXCEPT ![r] = "fetch_listing"]
              /\ UNCHANGED reason
         ELSE LeaveLoop(r, "quota")
    /\ UNCHANGED <<variant_vars, html, extracted, shown, shutdown, site, seed, MAX_PAGES, MAX_TICKETS_PER_RUN, rows, now,
                   processed_tickets, processed_pages, current_url, car_links,
                   idx, playwright, browser, held, raised, faults, hist>>

(* fetch_with_playwright(current_url) and parse_car_listing_page(html).    *)
(* The fetch gives "" for a challenge URL or a navigation error ("empty"), *)
(* else the page content, which may itself carry challenge markers         *)
(* ("challenge"); writing the debug copy of the page may raise ("raise").  *)
(* The document the page displays after fetch_with_playwright(url, page):  *)
(* page.goto(url) puts the fetched document (kind) in the run's single     *)
(* page; a redirect to a challenge or a failed load puts another document  *)
(* there; a navigation that times out before the site answers leaves the   *)
(* document that was there.                                                *)
Displayed(before, kind, o) ==
    CASE o = "html"             -> kind
      [] o \in {"stay", "raise"} -> before
      [] OTHER                  -> "other"

FetchListing(r, o) ==
    /\ pc[r] = "fetch_listing"
    /\ Outcome(r, o)
    /\ LET links == parse_car_listing_page(site, current_url[r], o, seed) IN
         CASE o = "empty" ->
                /\ LeaveLoop(r, "fetch_failed")
                /\ UNCHANGED <<car_links, idx>>
           [] o = "raise" ->
                /\ LeaveLoop(r, "exception")
                /\ UNCHANGED <<car_links, idx>>
           [] OTHER ->
                /\ car_links' = [car_links EXCEPT ![r] = links]
                /\ idx' = [idx EXCEPT ![r] = 1]
                /\ IF links = <<>>
                     THEN LeaveLoop(r, "no_links")
                     ELSE /\ pc' = [pc EXCEPT ![r] = "for"]
                          /\ UNCHANGED reason
    /\ shown' = [shown EXCEPT ![r] = Displayed(shown[r], "listing", o)]
    /\ hist' = [hist EXCEPT ![r].listFetches = @ + 1,
                            ![r].attempts = @ + 1,
                            ![r].clean = @ /\ Nominal(o)]
    /\ UNCHANGED <<variant_vars, html, extracted, shutdown, site, seed, MAX_PAGES, MAX_TICKETS_PER_RUN, rows, now,
                   processed_tickets, processed_pages, current_url, playwright,
                   browser, held, raised>>

(* Head of "for car_link in car_links": the quota check, then the call of  *)
(* process_car_page for the next link                                      *)
ForHead(r) ==
    /\ pc[r] = "for"
    /\ IF idx[r] > Len(car_links[r]) \/ QuotaReached(r)
         THEN /\ pc' = [pc EXCEPT ![r] = "advance"]
              /\ UNCHANGED hist
         ELSE /\ pc' = [pc EXCEPT ![r] = "check"]
              /\ hist' = [hist EXCEPT ![r].dispatched = @ + 1]
    /\ UNCHANGED <<variant_vars, html, extracted, shown, shutdown, site, seed, MAX_PAGES, MAX_TICKETS_PER_RUN, rows, now,
                   processed_tickets, processed_pages, current_url, car_links,
                   idx, playwright, browser, held, reason, raised, faults>>

(* ReturnFromCar, were the loop not to count the dispatch *)
ReturnUncounted(r) ==
    /\ UNCHANGED processed_tickets
    /\ idx' = [idx EXCEPT ![r] = @ + 1]
    /\ pc' = [pc EXCEPT ![r] = "for"]

(* process_car_page returned: processed_tickets += 1, the delay, next link *)
ReturnFromCar(r) ==
    /\ processed_tickets' = [processed_tickets EXCEPT ![r] = @ + 1]
    /\ idx' = [idx EXCEPT ![r] = @ + 1]
    /\ pc' = [pc EXCEPT ![r] = "for"]

(* ContinueAfterError, were the for loop's body not in a try block *)
EscapeAfterError(r) ==
    /\ UNCHANGED <<processed_tickets, idx>>
    /\ pc' = [pc EXCEPT ![r] = "close_browser"]

(* process_car_page raised: the loop's except clause logs it and continues *)
ContinueAfterError(r) ==
    /\ UNCHANGED processed_tickets
    /\ idx' = [idx EXCEPT ![r] = @ + 1]
    /\ pc' = [pc EXCEPT ![r] = "for"]

(* AlreadyStored, were the existence check left out *)
AlreadyStoredNever(u) == FALSE

(* "if existing_car.scalar_one_or_none(): return" *)
AlreadyStored(u) == Exists(u)

(* process_car_page up to the existence check: a URL without an ad id and  *)
(* a URL that has a row return at once                                     *)
CheckExisting(r) ==
    /\ pc[r] = "check"
    /\ LET u == car_links[r][idx[r]] IN
         CASE DetailKind(u) = "noid" ->
                /\ ReturnFromCar(r)
                /\ UNCHANGED hist
           [] DetailKind(u) # "noid" /\ AlreadyStored(u) ->
                /\ ReturnFromCar(r)
                /\ hist' = [hist EXCEPT ![r].skips = @ + 1]
           [] OTHER ->
                /\ pc' = [pc EXCEPT ![r] = "fetch_car"]
                /\ UNCHANGED <<processed_tickets, idx, hist>>
    /\ UNCHANGED <<variant_vars, html, extracted, shown, shutdown, site, seed, MAX_PAGES, MAX_TICKETS_PER_RUN, rows, now,
                   processed_pages, current_url, car_links, playwright, browser,
                   held, reason, raised, faults>>

(* process_car_page from the fetch of the detail page to session.add:      *)
(* "" from the fetch returns; the Car constructor raises TypeError when    *)
(* car_data has the "location" key.                                        *)
FetchCar(r, o) ==
    /\ pc[r] = "fetch_car"
    /\ Outcome(r, o)
    /\ LET u == car_links[r][idx[r]] IN
         CASE o \in {"empty", "stay"} ->
                ReturnFromCar(r)
           [] o = "html" /\ DetailKind(u) = "loc" ->
                /\ pc' = [pc EXCEPT ![r] = "rollback"]
                /\ UNCHANGED <<processed_tickets, idx>>
           [] OTHER ->
                /\ pc' = [pc EXCEPT ![r] = "commit"]
                /\ UNCHANGED <<processed_tickets, idx>>
    /\ shown' = [shown EXCEPT ![r] = Displayed(shown[r], "detail", o)]
    /\ hist' = [hist EXCEPT ![r].clean = @ /\ Nominal(o),
                            ![r].fetched = @ \cup {car_links[r][idx[r]]}]
    /\ UNCHANGED <<variant_vars, html, extracted, shutdown, site, seed, MAX_PAGES, MAX_TICKETS_PER_RUN, rows, now,
                   processed_pages, current_url, car_links, playwright, browser,
                   held, reason, raised>>

(* await session.commit().  o = "raise": the database fails for a reason   *)
(* other than the unique index.  Time passes: whatever follows an insert   *)
(* reads a later clock than the one the inserted row was stamped with.     *)
Commit(r, o) ==
    /\ pc[r] = "commit"
    /\ Outcome(r, o)
    /\ LET u == car_links[r][idx[r]] IN
         CASE o = "raise" ->
                /\ pc' = [pc EXCEPT ![r] = "rollback"]
                /\ hist' = [hist EXCEPT ![r].clean = FALSE, ![r].commits = @ + 1]
                /\ UNCHANGED <<rows, now, processed_tickets, idx>>
           [] o = "ok" /\ ~CommitAccepts(u) ->
                /\ rows' = RowsAfterCommit(u)
                /\ pc' = [pc EXCEPT ![r] = "rollback"]
                /\ hist' = [hist EXCEPT ![r].conflicts = @ + 1, ![r].commits = @ + 1]
                /\ UNCHANGED <<now, processed_tickets, idx>>
           [] OTHER ->
                /\ rows' = RowsAfterCommit(u)
                /\ now' = now + 1
                /\ ReturnFromCar(r)
                /\ hist' = [hist EXCEPT ![r].commits = @ + 1]
    /\ UNCHANGED <<variant_vars, html, extracted, shown, shutdown, site, seed, MAX_PAGES, MAX_TICKETS_PER_RUN,
                   processed_pages, current_url, car_links, playwright, browser,
                   held, reason, raised>>

(* The except clause of process_car_page: log, await session.rollback().   *)
(* A rollback that raises leaves process_car_page as an exception.         *)
Rollback(r, o) ==
    /\ pc[r] = "rollback"
    /\ Outcome(r, o)
    /\ IF o = "ok" THEN ReturnFromCar(r) ELSE ContinueAfterError(r)
    /\ hist' = [hist EXCEPT ![r].clean = @ /\ Nominal(o)]
    /\ UNCHANGED <<variant_vars, html, extracted, shown, shutdown, site, seed, MAX_PAGES, MAX_TICKETS_PER_RUN, rows, now,
                   processed_pages, current_url, car_links, playwright, browser,
                   held, reason, raised>>

(* get_next_page_url of the browser variant: the next link of the         *)
(* document the run's page displays, None when there is none or when       *)
(* reading the page fails.  The listing page p carries the site's next     *)
(* link; a detail page, a challenge page and an error page carry no pager. *)
get_next_page_url(s, p, d, o) ==
    IF o = "ok" /\ d = "listing" THEN SiteNext(s)[p] ELSE NoUrl

(* processed_pages += 1, then the next page's URL *)
AdvancePage(r, o) ==
    /\ pc[r] = "advance"
    /\ processed_pages[r] <= MaxPagesQuota   \* caps the counter; true of every reachable state
    /\ Outcome(r, o)
    /\ processed_pages' = [processed_pages EXCEPT ![r] = @ + 1]
    /\ LET next_page_url == get_next_page_url(site, current_url[r], shown[r], o) IN
         IF next_page_url = NoUrl
           THEN /\ LeaveLoop(r, "no_next")
                /\ UNCHANGED current_url
           ELSE /\ current_url' = [current_url EXCEPT ![r] = next_page_url]
                /\ pc' = [pc EXCEPT ![r] = "loop"]
                /\ UNCHANGED reason
    /\ hist' = [hist EXCEPT ![r].clean = @ /\ Nominal(o), ![r].attempts = 0,
                            ![r].advancedFrom = current_url[r]]
    /\ UNCHANGED <<variant_vars, html, extracted, shown, shutdown, site, seed, MAX_PAGES, MAX_TICKETS_PER_RUN, rows, now,
                   processed_tickets, car_links, idx, playwright, browser, held,
                   raised>>

(* finally: if browser: await browser.close().  A close that raises leaves *)
(* the run through the finally block, before playwright.stop().            *)
CloseBrowser(r, o) ==
    /\ pc[r] = "close_browser"
    /\ Outcome(r, o)
    /\ ~browser[r] => o = "ok"
    /\ CASE ~browser[r] ->
              /\ pc' = [pc EXCEPT ![r] = "stop_playwright"]
              /\ UNCHANGED <<held, raised>>
         [] browser[r] /\ o = "ok" ->
              /\ held' = [held EXCEPT ![r] = @ \ {"browser"}]
              /\ pc' = [pc EXCEPT ![r] = "stop_playwright"]
              /\ UNCHANGED raised
         [] OTHER ->
              /\ raised' = [raised EXCEPT ![r] = "close"]
              /\ pc' = [pc EXCEPT ![r] = "done"]
              /\ UNCHANGED held
    /\ hist' = [hist EXCEPT ![r].clean = @ /\ Nominal(o)]
    /\ UNCHANGED <<variant_vars, html, extracted, shown, shutdown, site, seed, MAX_PAGES, MAX_TICKETS_PER_RUN, rows, now,
                   processed_tickets, processed_pages, current_url, car_links,
                   idx, playwright, browser, reason>>

(* finally: if playwright: await playwright.stop() *)
StopPlaywright(r, o) ==
    /\ pc[r] = "stop_playwright"
    /\ Outcome(r, o)
    /\ ~playwright[r] => o = "ok"
    /\ pc' = [pc EXCEPT ![r] = "done"]
    /\ CASE ~playwright[r] ->
              UNCHANGED <<held, raised>>
         [] playwright[r] /\ o = "ok" ->
              /\ held' = [held EXCEPT ![r] = @ \ {"playwright"}]
              /\ UNCHANGED raised
         [] OTHER ->
              /\ raised' = [raised EXCEPT ![r] = "stop"]
              /\ UNCHANGED held
    /\ hist' = [hist EXCEPT ![r].clean = @ /\ Nominal(o)]
    /\ UNCHANGED <<variant_vars, html, extracted, shown, shutdown, site, seed, MAX_PAGES, MAX_TICKETS_PER_RUN, rows, now,
                   processed_tickets, processed_pages, current_url, car_links,
                   idx, playwright, browser, reason>>

----------------------------------------------------------------------------
(* One step of a run *)
RunStep(r) ==
    \/ \E o \in {"ok", "start", "launch", "context"} : SetupBrowser(r, o)
    \/ LoopGuard(r)
    \/ \E o \in {"html", "challenge", "empty", "raise"} : FetchListing(r, o)
    \/ ForHead(r)
    \/ CheckExisting(r)
    \/ \E o \in {"html", "empty", "stay"} : FetchCar(r, o)
    \/ \E o \in {"ok", "raise"} : Commit(r, o)
    \/ \E o \in {"ok", "raise"} : Rollback(r, o)
    \/ \E o \in {"ok", "fail"} : AdvancePage(r, o)
    \/ \E o \in {"ok", "raise"} : CloseBrowser(r, o)
    \/ \E o \in {"ok", "raise"} : StopPlaywright(r, o)

(* The two triggers fire independently of each other *)
Next ==
    \/ \E o \in -1..MaxTicketsQuota : ApiStart(o)
    \/ SchedStart
    \/ Restart
    \/ \E r \in Runs : RunStep(r)

Spec == Init /\ [][Next]_vars

(* The same with the configuration endpoint called at any time, on the     *)
(* first page of the two-page site                                         *)
InitCfg == Init /\ site = "chain" /\ MAX_PAGES = 1

NextCfg ==
    \/ Next
    \/ \E q \in 1..MaxTicketsQuota : update_max_tickets(q)

SpecCfg == InitCfg /\ [][NextCfg]_vars

(* The two runs, and the application told to shut down at any time *)
NextStop ==
    \/ Next
    \/ Shutdown

SpecStop == InitCfg /\ [][NextStop]_vars

(* The crawl run twice, one run after the other *)
NextSeq ==
    \/ \E o \in -1..MaxTicketsQuota : ~InProgress("sched") /\ ApiStart(o)
    \/ ~InProgress("api") /\ SchedStart
    \/ Restart
    \/ \E r \in Runs : RunStep(r)

SpecSeq == InitSeq /\ [][NextSeq]_vars

(* The sites with pagination: a chain that ends, a page that links to      *)
(* itself, and two pages that link to each other                           *)
InitFair == Init /\ site \in {"chain", "self", "back"}

(* Every run that can take a step eventually takes one: each run is a     *)
(* coroutine that its event loop keeps scheduling                          *)
NextFair ==
    \/ \E o \in -1..MaxTicketsQuota : ~InProgress("sched") /\ ApiStart(o)
    \/ ~InProgress("api") /\ SchedStart
    \/ \E r \in Runs : RunStep(r)

FairSpec == InitFair /\ [][NextFair]_vars /\ \A r \in Runs : WF_vars(RunStep(r))

----------------------------------------------------------------------------
(* The extractors applied to one content *)

run_vars == <<site, seed, MAX_PAGES, MAX_TICKETS_PER_RUN, rows, now, pc,
              processed_tickets, processed_pages, current_url, car_links, idx,
              playwright, browser, held, reason, raised, faults, hist, shown,
              shutdown>>

(* process_car_page, from the fetched content to the Car it adds: the      *)
(* phone number that extract_phone_number returns replaces the one         *)
(* parse_car_detail_page found.  The pages here carry no location element. *)
ProcessCarPage ==
    /\ html.layout \in {"listing", "detail"}
    /\ extracted = NotYet
    /\ LET car_data == parse_car_detail_page(html, "u1") IN
         extracted' = [by |-> "process_car_page",
                       car_data |-> [car_data EXCEPT !.phone_number =
                                        extract_phone_number(html.phone)]]
    /\ UNCHANGED <<variant_vars, html, run_vars>>

(* process_mock_data, for the item block of index i of the listing file:   *)
(* the values it puts where parse_car_detail_page found none ("if not      *)
(* car_data.get(...)"), and the Car it adds                                *)
ProcessMockItem(i) ==
    /\ html.layout = "listing"
    /\ extracted = NotYet
    /\ LET car_data == parse_car_detail_page(html, "u1") IN
         extracted' =
            [by |-> "process_mock_data",
             car_data |->
                [car_data EXCEPT
                    !.phone_number = IF @ \in {NoText, <<>>} THEN MockPhone(i) ELSE @,
                    !.car_vin = IF @ \in {NoText, <<>>} THEN MockVin(i) ELSE @]]
    /\ UNCHANGED <<variant_vars, html, run_vars>>

(* parse_car_listing_page of the browser variant on a results page *)
ParseListing ==
    /\ html.layout = "results"
    /\ extracted = NotYet
    /\ extracted' = [by |-> "parse_car_listing_page",
                     car_links |-> ExtractCarLinks(html, seed)]
    /\ UNCHANGED <<variant_vars, html, run_vars>>

NextParse ==
    \/ ProcessCarPage
    \/ \E i \in 0..MaxMockIdx : ProcessMockItem(i)
    \/ ParseListing

SpecParse == InitParse /\ [][NextParse]_vars

----------------------------------------------------------------------------
(* process_car_page of each variant, followed on its own for one URL *)

Variants == {"enhanced", "playwright", "protocol"}

(* The URL of the item: it carries an ad id *)
ItemUrl == "u1"

(* What the site answers to the request for the detail page: a full        *)
(* document; a redirect to a URL with "captcha", "security" or "check" in  *)
(* it; a full document with the words of a challenge in it; a document     *)
(* under 1000 characters; one under 100 characters; no answer.             *)
Arrivals == {"valid", "challenge_url", "challenge_content", "short", "tiny", "raise"}

(* fetch_with_playwright of the browser variant v: "" or the content.  The *)
(* enhanced variant returns "" for a challenge URL and on an exception,    *)
(* and only logs a warning for a short content; the other one returns ""   *)
(* on an exception and for a content under 100 characters.                 *)
fetch_with_playwright(v, a) ==
    IF v = "enhanced"
      THEN IF a \in {"challenge_url", "raise"} THEN "" ELSE "html"
      ELSE IF a \in {"tiny", "raise"} THEN "" ELSE "html"

(* fetch_page when every attempt gets the same answer: a response from a   *)
(* URL without "auto_" raises, as does a failed request, and the third     *)
(* failure is raised again; a content with "captcha", "robot" or "blocked" *)
(* is retried and the loop ends without a return; any other is returned.   *)
fetch_page(a) ==
    CASE a \in {"challenge_url", "raise"} -> "raise"
      [] a = "challenge_content" -> "None"
      [] OTHER -> "html"

PhonePartsOfItem ==
    [button : BOOLEAN,
     data : {NoText, PhoneLocal},
     text : {NoText, PhoneLocal},
     api : {NoText, PhoneBare},
     visible : {NoText, PhoneBare}]

(* The documents at ItemUrl: location is TRUE when the document has a      *)
(* location element, which parse_car_detail_page copies into car_data      *)
ItemContents ==
    [layout : {"detail"},
     race : {NoMileage},
     size18 : {NoMileage},
     label_vin : {NoText},
     phone : PhonePartsOfItem,
     arrives : Arrivals,
     location : BOOLEAN]

InitItem ==
    /\ site = "chain"
    /\ seed = 0
    /\ MAX_PAGES = 0
    /\ MAX_TICKETS_PER_RUN = ConfiguredQuota
    /\ IdleRuns
    /\ rows \in {{}, {[url |-> ItemUrl, nth |-> 1, datetime_found |-> 0]}}
    /\ html \in ItemContents
    /\ extracted = NotYet
    /\ variant \in Variants
    /\ ipc = "begin"
    /\ requests = <<>>
    /\ phone_number = NoText
    /\ tried = {}
    /\ open_pages = 0
    /\ NoProto

item_frame == <<site, seed, MAX_PAGES, MAX_TICKETS_PER_RUN, now, pc,
                processed_tickets, processed_pages, current_url, car_links,
                idx, playwright, browser, held, reason, raised, faults, hist,
                shown, shutdown, html, variant, proto_vars>>

(* Enhanced variant: the ad id is found in the URL, then the SELECT by     *)
(* url: a stored URL ends the step                                         *)
CheckFirst ==
    /\ variant = "enhanced"
    /\ ipc = "begin"
    /\ ipc' = IF Exists(ItemUrl) THEN "done" ELSE "fetch"
    /\ UNCHANGED <<item_frame, rows, extracted, requests, phone_number, tried, open_pages>>

(* The detail page is requested: after the SELECT in the enhanced variant, *)
(* as the first statement (protocol variant) or right after the ad id      *)
(* (browser variant) in the other two.  An empty result ends the step; an  *)
(* exception of fetch_page is caught by process_car_page.                  *)
FetchDetail ==
    /\ \/ variant = "enhanced" /\ ipc = "fetch"
       \/ variant \in {"playwright", "protocol"} /\ ipc = "begin"
    /\ requests' = Append(requests, "detail")
    /\ ipc' = CASE variant = "enhanced" ->
                     IF fetch_with_playwright(variant, html.arrives) = ""
                       THEN "done" ELSE "reveal"
                [] variant = "playwright" ->
                     IF fetch_with_playwright(variant, html.arrives) = ""
                       THEN "done" ELSE "parse"
                [] variant = "protocol" ->
                     IF fetch_page(html.arrives) = "raise" THEN "done" ELSE "parse"
    /\ UNCHANGED <<item_frame, rows, extracted, phone_number, tried, open_pages>>

(* "car_data = await parse_car_detail_page(car_html, car_url)" of the      *)
(* protocol and the browser variant: parse_car_detail_page is a plain      *)
(* function, its result is a dict, and await of a dict raises TypeError.   *)
(* The except clause of process_car_page logs it (and rolls back).         *)
AwaitParse ==
    /\ variant \in {"playwright", "protocol"}
    /\ ipc = "parse"
    /\ ipc' = "done"
    /\ UNCHANGED <<item_frame, rows, extracted, requests, phone_number, tried, open_pages>>

(* extract_phone_number of the enhanced variant, step by step.  The        *)
(* trigger is looked for and clicked: without a trigger the lookups behind *)
(* the click are skipped; a click that raises goes to the outer except     *)
(* clause, which returns None.                                             *)
RevealClick(o) ==
    /\ variant = "enhanced"
    /\ ipc = "reveal"
    /\ IF ~html.phone.button
         THEN /\ o = "ok"
              /\ tried' = tried \cup {"trigger"}
              /\ ipc' = "visible"
              /\ UNCHANGED phone_number
         ELSE /\ tried' = tried \cup {"trigger", "click"}
              /\ IF o = "ok"
                   THEN ipc' = "lookups" /\ UNCHANGED phone_number
                   ELSE ipc' = "save" /\ phone_number' = NoText
    /\ UNCHANGED <<item_frame, rows, extracted, requests, open_pages>>

(* The data attribute, then the text of the revealed element; a            *)
(* page.evaluate that raises goes to the outer except clause               *)
RevealLookups(o) ==
    /\ variant = "enhanced"
    /\ ipc = "lookups"
    /\ LET ph == html.phone
           phone_clean == KeepDigitsAndPlus(ph.text) IN
       CASE o = "raise" ->
              /\ tried' = tried \cup {"attribute"}
              /\ phone_number' = NoText
              /\ ipc' = "save"
         [] o = "ok" /\ ph.data \notin {NoText, <<>>} ->
              /\ tried' = tried \cup {"attribute"}
              /\ phone_number' = ph.data
              /\ ipc' = "save"
         [] o = "ok" /\ ph.data \in {NoText, <<>>}
              /\ ph.text \notin {NoText, <<>>} /\ phone_clean # <<>> ->
              /\ tried' = tried \cup {"attribute", "text"}
              /\ phone_number' = phone_clean
              /\ ipc' = "save"
         [] OTHER ->
              /\ tried' = tried \cup {"attribute", "text"}
              /\ UNCHANGED phone_number
              /\ ipc' = "endpoint"
    /\ UNCHANGED <<item_frame, rows, extracted, requests, open_pages>>

(* The phones endpoint in a new page of the context: new_page, goto,       *)
(* content, close.  When goto or content raises, the inner except clause   *)
(* logs it; close is not reached.                                          *)
RevealEndpoint(o) ==
    /\ variant = "enhanced"
    /\ ipc = "endpoint"
    /\ tried' = tried \cup {"endpoint"}
    /\ requests' = Append(requests, "phone")
    /\ IF o = "raise"
         THEN /\ open_pages' = open_pages + 1
              /\ UNCHANGED phone_number
              /\ ipc' = "visible"
         ELSE /\ UNCHANGED open_pages
              /\ IF html.phone.api \notin {NoText, <<>>}
                   THEN phone_number' = html.phone.api /\ ipc' = "save"
                   ELSE UNCHANGED phone_number /\ ipc' = "visible"
    /\ UNCHANGED <<item_frame, rows, extracted>>

(* The phone that is visible without a click *)
RevealVisible ==
    /\ variant = "enhanced"
    /\ ipc = "visible"
    /\ tried' = tried \cup {"visible"}
    /\ phone_number' = IF html.phone.visible # NoText /\ IsPlainNumber(html.phone.visible)
                         THEN html.phone.visible ELSE NoText
    /\ ipc' = "save"
    /\ UNCHANGED <<item_frame, rows, extracted, requests, open_pages>>

(* parse_car_detail_page, car_data['phone_number'] = phone_number, the Car *)
(* and the commit.  A location key makes the constructor of Car raise      *)
(* TypeError; a commit can fail; both end in the rollback.                 *)
SaveCar(o) ==
    /\ variant = "enhanced"
    /\ ipc = "save"
    /\ ipc' = "done"
    /\ LET car_data == [parse_car_detail_page(html, ItemUrl)
                           EXCEPT !.phone_number = phone_number] IN
       IF html.location \/ o = "raise" \/ ~CommitAccepts(ItemUrl)
         THEN UNCHANGED <<rows, extracted>>
         ELSE /\ rows' = RowsAfterCommit(ItemUrl)
              /\ extracted' = [by |-> "process_car_page", car_data |-> car_data]
    /\ UNCHANGED <<item_frame, requests, phone_number, tried, open_pages>>

NextItem ==
    \/ CheckFirst
    \/ FetchDetail
    \/ AwaitParse
    \/ \E o \in {"ok", "raise"} : RevealClick(o)
    \/ \E o \in {"ok", "raise"} : RevealLookups(o)
    \/ \E o \in {"ok", "raise"} : RevealEndpoint(o)
    \/ RevealVisible
    \/ \E o \in {"ok", "raise"} : SaveCar(o)

SpecItem == InitItem /\ [][NextItem]_vars

----------------------------------------------------------------------------
(* The protocol variant: run_scraper, process_listing_page and fetch_page  *)
(* of scraper.py                                                           *)

MaxConcurrent == 2      \* settings.MAX_CONCURRENT_REQUESTS ranges over 1..MaxConcurrent

max_retries == 3

retry_delay == 2

RECURSIVE Pow(_, _)
Pow(b, e) == IF e = 0 THEN 1 ELSE b * Pow(b, e - 1)

(* backoff_time = retry_delay * (4 ** attempt), slept after a content with *)
(* the words of a challenge                                                *)
captcha_backoff(k) == retry_delay * Pow(4, k)

(* backoff_time = retry_delay * (2 ** attempt), slept after httpx.HTTPError *)
error_backoff(k) == retry_delay * Pow(2, k)

(* What one pass of the for loop of fetch_page does at attempt k when the  *)
(* request is answered by o: a content is returned; a challenge or an      *)
(* error is retried after a sleep while k < max_retries - 1; after the     *)
(* last challenge the loop ends and the function returns None; the last    *)
(* error is raised again.                                                  *)
AttemptResult(k, o) ==
    CASE o = "content" -> "content"
      [] o = "captcha" -> IF k < max_retries - 1 THEN "retry" ELSE "None"
      [] o = "error" -> IF k < max_retries - 1 THEN "retry" ELSE "raise"

(* The sleep of that pass, if it has one *)
Backoff(k, o) ==
    IF AttemptResult(k, o) = "retry"
      THEN {[kind |-> o, attempt |-> k,
             backoff_time |-> IF o = "captcha" THEN captcha_backoff(k)
                                               ELSE error_backoff(k)]}
      ELSE {}

Answers == {"content", "captcha", "error"}

(* async with semaphore: the coroutine enters when the value is positive *)
CanAcquireAlways(value) == TRUE

CanAcquire(value) == value > 0

(* Gathered, were the tasks started and not awaited *)
GatheredAtOnce(ts) == TRUE

(* await asyncio.gather of the tasks returns when every task has finished; *)
(* a task raises nothing, process_car_page catches everything              *)
Gathered(ts) == \A i \in 1..Len(ts) : ts[i].pc = "done"

InFlight == {i \in 1..Len(tasks) : tasks[i].pc = "fetch"}

InitProto ==
    /\ site \in SiteNames \cup {"trio"}
    /\ seed = 0
    /\ MAX_PAGES \in 0..MaxPagesQuota
    /\ MAX_TICKETS_PER_RUN = ConfiguredQuota
    /\ rows = {}
    /\ IdleRuns
    /\ NoItem
    /\ html = NoPage
    /\ extracted = NotYet
    /\ MAX_CONCURRENT_REQUESTS \in 1..MaxConcurrent
    /\ current_page_url = AUTO_RIA_START_URL
    /\ page_count = 0
    /\ lpc = "loop"
    /\ attempt = 0
    /\ tasks = <<>>
    /\ semaphore = 0
    /\ slept = {}

proto_frame == <<site, seed, MAX_PAGES, MAX_TICKETS_PER_RUN, rows, now, pc,
                 processed_tickets, processed_pages, current_url, car_links,
                 idx, playwright, browser, held, reason, raised, faults, hist,
                 shown, shutdown, html, extracted, item_vars,
                 MAX_CONCURRENT_REQUESTS>>

(* while current_page_url and page_count < max_pages *)
WhileHead ==
    /\ lpc = "loop"
    /\ IF current_page_url # NoUrl /\ page_count < MAX_PAGES
         THEN lpc' = "fetch" /\ attempt' = 0
         ELSE lpc' = "done" /\ UNCHANGED attempt
    /\ UNCHANGED <<proto_frame, current_page_url, page_count, tasks, semaphore, slept>>

(* process_listing_page has returned next: "if not next_page_url or       *)
(* next_page_url == current_page_url: break", else the next page          *)
Returned(next) ==
    IF next = NoUrl \/ next = current_page_url
      THEN lpc' = "done" /\ UNCHANGED <<current_page_url, page_count>>
      ELSE /\ lpc' = "loop"
           /\ current_page_url' = next
           /\ page_count' = page_count + 1

(* One pass of fetch_page for the listing page.  With the content,         *)
(* process_listing_page parses it: no URL, and the next link is returned;  *)
(* else one task per URL is created behind a new semaphore and gathered.   *)
(* Without content (None makes parse_car_listing_page raise, an error is   *)
(* raised by fetch_page) the except clause returns None.                   *)
ListingAttempt(o) ==
    /\ lpc = "fetch"
    /\ slept' = slept \cup Backoff(attempt, o)
    /\ LET car_urls == SiteItems(site)[current_page_url] IN
       CASE AttemptResult(attempt, o) = "retry" ->
              /\ attempt' = attempt + 1
              /\ UNCHANGED <<lpc, current_page_url, page_count, tasks, semaphore>>
         [] AttemptResult(attempt, o) \in {"None", "raise"} ->
              /\ Returned(NoUrl)
              /\ UNCHANGED <<attempt, tasks, semaphore>>
         [] AttemptResult(attempt, o) = "content" /\ car_urls = <<>> ->
              /\ Returned(SiteNext(site)[current_page_url])
              /\ UNCHANGED <<attempt, tasks, semaphore>>
         [] OTHER ->
              /\ tasks' = [i \in 1..Len(car_urls) |->
                             [url |-> car_urls[i], pc |-> "waiting", attempt |-> 0]]
              /\ semaphore' = MAX_CONCURRENT_REQUESTS
              /\ lpc' = "gather"
              /\ UNCHANGED <<attempt, current_page_url, page_count>>
    /\ UNCHANGED proto_frame

(* process_with_semaphore: the task enters "async with semaphore" *)
TaskAcquire(i) ==
    /\ lpc = "gather"
    /\ tasks[i].pc = "waiting"
    /\ CanAcquire(semaphore)
    /\ semaphore' = semaphore - 1
    /\ tasks' = [tasks EXCEPT ![i].pc = "fetch"]
    /\ UNCHANGED <<proto_frame, current_page_url, page_count, lpc, attempt, slept>>

(* One pass of fetch_page for the task's URL.  When fetch_page returns or  *)
(* raises, process_car_page goes on without suspending: "await             *)
(* parse_car_detail_page(...)" raises TypeError (the function is not a     *)
(* coroutine function), or the error of fetch_page arrives; the except     *)
(* clause logs it, and the task leaves "async with semaphore".             *)
TaskAttempt(i, o) ==
    /\ lpc = "gather"
    /\ tasks[i].pc = "fetch"
    /\ slept' = slept \cup Backoff(tasks[i].attempt, o)
    /\ IF AttemptResult(tasks[i].attempt, o) = "retry"
         THEN /\ tasks' = [tasks EXCEPT ![i].attempt = @ + 1]
              /\ UNCHANGED semaphore
         ELSE /\ tasks' = [tasks EXCEPT ![i].pc = "done"]
              /\ semaphore' = semaphore + 1
    /\ UNCHANGED <<proto_frame, current_page_url, page_count, lpc, attempt>>

(* gather has returned: get_next_page_url(html, page_url) on the listing's *)
(* content, and the return to run_scraper                                  *)
AfterGather ==
    /\ lpc = "gather"
    /\ Gathered(tasks)
    /\ Returned(SiteNext(site)[current_page_url])
    /\ UNCHANGED <<proto_frame, attempt, tasks, semaphore, slept>>

NextProto ==
    \/ WhileHead
    \/ \E o \in Answers : ListingAttempt(o)
    \/ \E i \in 1..Len(tasks) : TaskAcquire(i)
    \/ \E i \in 1..Len(tasks), o \in Answers : TaskAttempt(i, o)
    \/ AfterGather

SpecProto == InitProto /\ [][NextProto]_vars

----------------------------------------------------------------------------
(* Properties *)

(* The link run r is processing *)
CurrentLink(r) == car_links[r][idx[r]]

(* The positions of a run inside process_car_page *)
ItemPcs == {"check", "fetch_car", "commit", "rollback"}

Terminated(r) == pc[r] = "done"

(* The run ended because a listing page could not be had, or on an error *)
Aborted(r) == Terminated(r) /\ reason[r] \in {"fetch_failed", "exception"}

(* The run ended because a quota was reached or the listing ran out *)
Done(r) == Terminated(r) /\ reason[r] \in {"quota", "no_links", "no_next"}

UrlsUnique == \A a, b \in rows : a.url = b.url => a = b

(* A commit for a URL that has a row meanwhile changes nothing, is followed *)
(* by the rollback, and raises nothing in the run                           *)
LoserRollsBack(r) ==
    (pc[r] = "commit" /\ pc'[r] # "commit" /\ Exists(CurrentLink(r)))
        => /\ rows' = rows
           /\ pc'[r] = "rollback"
           /\ raised'[r] = raised[r]

(* After the rollback the run is back in its for loop *)
RollbackResumes(r) ==
    (pc[r] = "rollback" /\ pc'[r] # "rollback") => pc'[r] = "for"

(* C1: whatever the interleaving of two runs started concurrently, the     *)
(* table holds at most one row per URL; the insert that comes second is    *)
(* rolled back and changes nothing, and its error does not leave the item  *)
(* loop: the run goes on with the next link.                               *)
C1_AtMostOneRecordPerUrl ==
    /\ []UrlsUnique
    /\ [][\A r \in Runs : LoserRollsBack(r) /\ RollbackResumes(r)]_vars

(* Both runs found the URL absent, one has inserted it and the other one's *)
(* commit has been rejected and is being rolled back                       *)
C1_Witness ==
    \E r \in Runs :
        /\ pc[r] = "rollback"
        /\ hist[r].conflicts > 0
        /\ Exists(CurrentLink(r))
        /\ hist[Other(r)].commits > 0

(* The k-th listing page of site s, following the next links from the     *)
(* start URL; NoUrl past the last page                                     *)
RECURSIVE PageAt(_, _)
PageAt(s, k) ==
    IF k = 1 THEN AUTO_RIA_START_URL
    ELSE LET p == PageAt(s, k - 1) IN
         IF p = NoUrl THEN NoUrl ELSE SiteNext(s)[p]

(* The crawl of site s gets to a k-th page: a page without items, like    *)
(* the end of the listing, ends the crawl                                  *)
RECURSIVE Reached(_, _)
Reached(s, k) ==
    IF k = 1 THEN TRUE
    ELSE /\ Reached(s, k - 1)
         /\ Len(SiteItems(s)[PageAt(s, k - 1)]) > 0
         /\ PageAt(s, k) # NoUrl

(* The items a crawl of site s discovers on its first k pages *)
RECURSIVE Discovered(_, _)
Discovered(s, k) ==
    IF k = 0 THEN 0
    ELSE Discovered(s, k - 1)
           + (IF Reached(s, k) THEN Len(SiteItems(s)[PageAt(s, k)]) ELSE 0)

(* Run a, then run b, over the same site with the same quotas, from an    *)
(* empty table, no call failing in either, and both have ended             *)
TwoRunsInARow(a, b) ==
    /\ Terminated(a) /\ Terminated(b)
    /\ 0 < hist[a].startedAt /\ hist[a].startedAt < hist[b].startedAt
    /\ hist[a].startRows = {}
    /\ hist[a].clean /\ hist[b].clean
    /\ hist[a].startQuota = hist[b].startQuota

(* The second run b has left the table as the first run left it, no URL    *)
(* has two rows, and b met no rejected commit and raised nothing           *)
SecondRunChangedNothing(b) ==
    /\ rows = hist[b].startRows
    /\ UrlsUnique
    /\ hist[b].conflicts = 0
    /\ raised[b] = "none"

(* C2: the crawl run twice over the same content from an empty table      *)
(* leaves the same records after the second run as after the first,        *)
(* without duplicate or error.  Violated: the first run fetches the items  *)
(* of page 1, so its page displays a detail document when the next link is *)
(* looked up and the run ends there; the second run skips those items, its *)
(* page still displays the listing, it goes on to page 2 and stores items  *)
(* the first run never saw.                                                *)
C2_SecondRunChangesNothing ==
    \A a \in Runs :
        TwoRunsInARow(a, Other(a)) => SecondRunChangedNothing(Other(a))

(* The step of process_car_page for a URL that has a row: it returns, the  *)
(* loop counts the item and moves to the next link; nothing is written     *)
SkipsKnownUrl(r) ==
    (pc[r] = "check" /\ pc'[r] # "check" /\ Exists(CurrentLink(r)))
        => /\ pc'[r] = "for"
           /\ processed_tickets'[r] = processed_tickets[r] + 1
           /\ idx'[r] = idx[r] + 1
           /\ rows' = rows
           /\ hist'[r].commits = hist[r].commits

PageOfItem(s, q) ==
    CHOOSE k \in 1..(MaxPagesQuota + 1) :
        /\ Discovered(s, k) >= q
        /\ \A j \in 1..(k - 1) : Discovered(s, j) < q

(* C4: a run with item quota Q, 1 <= Q, smaller than the number of items   *)
(* the crawl discovers within its page quota, no call failing: exactly Q   *)
(* items are dispatched and counted, the pages counted are the index of    *)
(* the page on which the Q-th item was found, and the run ends normally.   *)
(* In particular two pages of 5 and 3 items and a quota of 6 give 6        *)
(* dispatched items and 2 pages.                                           *)
(* Violated from an empty table: the five items of page 1 are fetched in   *)
(* the run's page, the next link is looked up in the last detail document, *)
(* none is found and the run ends with 5 dispatched items and 1 page.      *)
C4_QuotaCutsMidPage ==
    \A r \in Runs :
        LET Q == hist[r].startQuota IN
        /\ ( /\ Terminated(r) /\ hist[r].clean
             /\ 1 <= Q /\ Q < Discovered(site, MAX_PAGES) )
           => /\ hist[r].dispatched = Q
              /\ processed_tickets[r] = Q
              /\ processed_pages[r] = PageOfItem(site, Q)
              /\ Done(r)
        /\ ( /\ Terminated(r) /\ hist[r].clean
             /\ site = "scenario" /\ Q = ScenarioQuota /\ MAX_PAGES >= 2 )
           => /\ hist[r].dispatched = ScenarioQuota
              /\ processed_pages[r] = 2
              /\ Done(r)

(* C5: a listing page that comes back blocked is fetched again, and the    *)
(* run gives the page up only after more than one attempt at its URL.      *)
(* The run of run_enhanced_playwright_scraper gives up after the first.    *)
C5_BlockedListingIsRetried ==
    \A r \in Runs :
        (Terminated(r) /\ reason[r] = "fetch_failed") => hist[r].attempts > 1

(* What a step of run r may do to the item loop *)
IsolationStep(r) ==
    \* nothing that happens inside process_car_page ends the loop or the run
    /\ pc[r] \in ItemPcs =>
          /\ pc'[r] \in ItemPcs \cup {"for"}
          /\ raised'[r] = raised[r]
          /\ reason'[r] = reason[r]
    \* whichever way process_car_page ends, the loop moves to the next link
    /\ (pc[r] \in ItemPcs /\ pc'[r] = "for") => idx'[r] = idx[r] + 1
    \* the loop is left only with every link handed out or the quota reached
    /\ (pc[r] = "for" /\ pc'[r] \notin ItemPcs \cup {"for"}) =>
          \/ idx[r] > Len(car_links[r])
          \/ QuotaReached(r)
    /\ (pc[r] = "for" /\ pc'[r] \in ItemPcs) =>
          /\ pc'[r] = "check"
          /\ hist'[r].dispatched = hist[r].dispatched + 1

(* C6: whatever fails while one detail URL is processed (the fetch, the    *)
(* parse, the commit, the rollback itself), nothing leaves the item loop:  *)
(* the run raises nothing and does not end there, the loop goes on to the  *)
(* next link, and it stops only when every link of the page has been       *)
(* dispatched or the item quota is reached.                                *)
C6_ItemFailureIsolated == [][\A r \in Runs : IsolationStep(r)]_vars

(* The first link of the first page has failed, rollback included (it was  *)
(* dispatched and not counted), and the second link has been dispatched    *)
C6_Witness ==
    \E r \in Runs :
        /\ pc[r] = "check" /\ idx[r] = 2
        /\ processed_pages[r] = 0
        /\ hist[r].dispatched = 2
        /\ processed_tickets[r] = 0

(* C7: however a run ends, every browser and driver handle acquired for    *)
(* it has been released.  A setup_browser that fails after the driver      *)
(* started, and a browser.close() that raises, end the run with handles    *)
(* held.                                                                   *)
C7_HandlesReleased ==
    \A r \in Runs : Terminated(r) => held[r] = {}

(* C8: on any site, looping pagination included, and with any page and     *)
(* item quotas, a run whose every call returns reaches its end.            *)
C8_RunTerminates ==
    \A r \in Runs : (pc[r] = "setup") ~> Terminated(r)

(* A run over pagination that loops has ended by exhausting its page quota *)
C8_Witness ==
    \E r \in Runs :
        /\ site \in {"self", "back"}
        /\ Terminated(r) /\ reason[r] = "quota"
        /\ processed_pages[r] = MAX_PAGES /\ MAX_PAGES >= 2
        /\ hist[r].listFetches = MAX_PAGES

(* C9: in every state of a run the listing pages fetched are at most the   *)
(* page quota and the items dispatched at most the item quota, and a quota *)
(* of 0 means no fetch.  A dispatch that ends in a failed rollback is not  *)
(* counted, so more items than the quota can be dispatched.                *)
C9_QuotaBound ==
    \A r \in Runs :
        /\ hist[r].listFetches <= MAX_PAGES
        /\ hist[r].dispatched <= hist[r].startQuota
        /\ (MAX_PAGES = 0 \/ hist[r].startQuota = 0) => hist[r].listFetches = 0

(* C10: a row, once in the table, stays in it with every field as it was   *)
(* inserted, datetime_found included, whatever is dispatched later by any  *)
(* run.                                                                    *)
C10_RecordsNeverChange == [][\A row \in rows : row \in rows']_vars

(* A run is processing a URL whose row was in the table before the run     *)
(* began, and the clock has moved on since the row was written             *)
C10_Witness ==
    \E r \in Runs :
        /\ pc[r] = "check"
        /\ \E row \in hist[r].startRows :
              /\ row.url = CurrentLink(r)
              /\ row \in rows
              /\ row.datetime_found < now

(* The item quota an in-progress run compares its counter with is the one *)
(* that was in force when the run was triggered                            *)
InProgressQuotaFixed ==
    \A r \in Runs : InProgress(r) => MAX_TICKETS_PER_RUN = hist[r].startQuota

(* The trigger of the API run, whatever override it carries, leaves the    *)
(* quota that other and later runs read as it was                          *)
OverrideStaysWithRun ==
    (pc["api"] = "idle" /\ pc'["api"] = "setup")
        => MAX_TICKETS_PER_RUN' = MAX_TICKETS_PER_RUN

(* C11: the configuration of a run is fixed at its start: neither an       *)
(* override passed to another trigger nor a call of the configuration      *)
(* endpoint changes the item quota an in-progress run enforces, and an     *)
(* override passed to one run does not apply to runs started later         *)
(* without one.  The run reads settings.MAX_TICKETS_PER_RUN anew at every  *)
(* check, and both the override and the endpoint write that same object.   *)
C11_ConfigFixedAtStart ==
    /\ []InProgressQuotaFixed
    /\ [][OverrideStaysWithRun]_vars

(* C12: once the run has been stopped from outside, no new item is         *)
(* dispatched; the items in flight finish, and then the browser and the    *)
(* driver are released.  Nothing in the application passes a stop on to a  *)
(* run: a run goes on dispatching after the shutdown.                      *)
C12_NoDispatchAfterStop ==
    [][\A r \in Runs : shutdown => hist'[r].dispatched = hist[r].dispatched]_vars

(* C17: when the next link a listing page resolves to is the URL of that   *)
(* page, the run ends normally and the URL is not fetched again: a run     *)
(* none of whose calls failed never fetches the listing URL it has just    *)
(* gone on from.  The loop of run_enhanced_playwright_scraper takes        *)
(* whatever URL get_next_page_url returns as its next current_url and goes *)
(* round again.                                                            *)
C17_CycleGuard ==
    [][\A r \in Runs :
          (pc[r] = "fetch_listing" /\ pc'[r] # "fetch_listing" /\ hist[r].clean)
              => current_url[r] # hist[r].advancedFrom]_vars

(* C18: a listing page that was fetched validly and holds no item link is  *)
(* still counted as a processed page and the run goes on to resolve its    *)
(* next link: in a run none of whose calls failed, every listing page      *)
(* fetched is a page counted.  The loop of run_enhanced_playwright_scraper *)
(* breaks on an empty list of links before it counts the page.             *)
C18_EmptyListingAdvances ==
    \A r \in Runs :
        (Terminated(r) /\ hist[r].clean)
            => processed_pages[r] = hist[r].listFetches

(* C19 as stated: a dispatch that is skipped because its URL is stored     *)
(* leaves the item counter as it was.  Violated: the loop counts whatever  *)
(* dispatch returns.                                                       *)
C19_SkipDoesNotCount ==
    [][\A r \in Runs :
          (pc[r] = "check" /\ pc'[r] # "check" /\ Exists(CurrentLink(r)))
              => processed_tickets'[r] = processed_tickets[r]]_vars

(* The step that ends the dispatch of an item: process_car_page returns or *)
(* raises, and the for loop moves to the next link                         *)
EndsDispatch(r) == pc[r] \in ItemPcs /\ pc'[r] = "for"

(* The step in which process_car_page raises into the for loop: its        *)
(* rollback fails                                                          *)
RaisesIntoLoop(r) == pc[r] = "rollback" /\ pc'[r] = "for" /\ faults' > faults

(* C19, amended: the item counter grows by one exactly when a dispatch     *)
(* returns, whether a row was stored, the fetch or the extraction failed,  *)
(* the URL has no id or the URL was found stored and skipped; it stays as  *)
(* it was when the dispatch raises, and no other step of a run in progress *)
(* changes it.                                                             *)
C19_CounterCountsReturns ==
    [][\A r \in Runs :
          /\ (EndsDispatch(r) /\ ~RaisesIntoLoop(r))
                => processed_tickets'[r] = processed_tickets[r] + 1
          /\ RaisesIntoLoop(r) => processed_tickets'[r] = processed_tickets[r]
          /\ (InProgress(r) /\ ~EndsDispatch(r))
                => processed_tickets'[r] = processed_tickets[r]]_vars

(* A run has counted two items: one it skipped because the URL was stored  *)
(* and one it stored                                                       *)
C19_Witness ==
    \E r \in Runs :
        /\ hist[r].skips = 1
        /\ hist[r].commits = 1 /\ hist[r].conflicts = 0 /\ hist[r].clean
        /\ processed_tickets[r] = 2

(* C20: within one run a detail URL is fetched at most once: the run never *)
(* navigates to a detail URL it has navigated to before.  The run keeps no *)
(* set of the URLs it has dispatched; a URL whose first fetch failed is    *)
(* not stored, and its second occurrence is fetched again.                 *)
C20_FetchedAtMostOnce ==
    [][\A r \in Runs :
          (pc[r] = "fetch_car" /\ pc'[r] # "fetch_car")
              => CurrentLink(r) \notin hist[r].fetched]_vars

(* The extractors have returned the Car that is written for the content *)
CarExtracted == extracted.by \in {"process_car_page", "process_mock_data"}

(* The country calling code that format_phone_number puts in front *)
CountryCode == <<"3", "8">>

(* A phone number in normalized form: digits only after an optional        *)
(* leading plus, the first of them the country calling code                *)
IsNormalized(p) ==
    LET d == IF p # <<>> /\ Head(p) = "+" THEN Tail(p) ELSE p IN
    /\ \A i \in 1..Len(d) : d[i] \in Digits
    /\ startswith(d, CountryCode)

(* C13: every phone number written with a Car, if not null, is in          *)
(* normalized form, whichever lookup produced it.  The lookups of          *)
(* extract_phone_number return the attribute, the text or the endpoint's   *)
(* answer without passing it to format_phone_number.                       *)
C13_StoredPhoneNormalized ==
    (CarExtracted /\ extracted.car_data.phone_number # NoText)
        => IsNormalized(extracted.car_data.phone_number)

(* A text of exactly 17 alphanumeric characters *)
IsVin(v) ==
    /\ Len(v) = 17
    /\ \A i \in 1..17 : v[i] \in Letters \cup Digits

(* C14: the VIN written with a Car is null or exactly 17 alphanumeric      *)
(* characters, for the crawl and for the mock-data processing.  The value  *)
(* the mock-data processing gives a listing item has 18 characters, and    *)
(* extract_car_vin returns the label's text when it holds no VIN.          *)
C14_StoredVinWellFormed ==
    CarExtracted
        => \/ extracted.car_data.car_vin = NoText
           \/ IsVin(extracted.car_data.car_vin)

(* The item blocks of the results page link to different URLs *)
WellFormedItems(page) ==
    \A i, j \in 1..Len(page.items) :
        ResolveLink(page.items[i]) = ResolveLink(page.items[j]) => i = j

(* C15: for a results page of N well-formed item blocks with one           *)
(* resolvable link each, the extractor returns exactly the N URLs of the   *)
(* blocks, whatever else the content holds.  A content that holds the word *)
(* "robot", "captcha" or "detection" anywhere yields no URL.               *)
C15_OneUrlPerItemBlock ==
    ( /\ extracted.by = "parse_car_listing_page"
      /\ WellFormedItems(html) )
        => /\ Len(extracted.car_links) = Len(html.items)
           /\ {extracted.car_links[i] : i \in 1..Len(extracted.car_links)}
                 = {ResolveLink(html.items[i]) : i \in 1..Len(html.items)}

(* The page's only mileage text, where its layout puts it *)
MileageText(page) ==
    IF page.layout = "listing" THEN page.race ELSE page.size18

(* C16: for a mileage text with the thousands marker of "120 тис. км" the  *)
(* odometer is the number times 1000, for a mileage text without a marker  *)
(* it is the number, in the listing layout and in the detail layout.  In   *)
(* the listing layout a text without marker yields no odometer at all.     *)
C16_OdometerValue ==
    LET m == MileageText(html) IN
    ( /\ extracted.by = "process_car_page"
      /\ m # NoMileage /\ m.marker \in {"tis", "none"}
      /\ (html.layout = "listing") = (html.size18 = NoMileage)
      /\ (html.layout = "detail") = (html.race = NoMileage) )
        => extracted.car_data.odometer
             = IF m.marker = "tis" THEN m.n * 1000 ELSE m.n

----------------------------------------------------------------------------
(* Properties of the item step *)

(* The cars table had a row for the URL before the step began: the step    *)
(* itself has added none                                                   *)
StoredBefore == Exists(ItemUrl) /\ extracted = NotYet

(* C21: for a URL that is already stored, the existence check comes before *)
(* any network activity, in every variant: no request for the detail page  *)
(* and no phone lookup is issued.  The protocol variant and the browser    *)
(* variant of playwright_scraper.py request the detail page first.         *)
C21_CheckBeforeNetwork ==
    (variant \in Variants /\ StoredBefore) => requests = <<>>

(* C22: a step for a URL that was not stored, whose fetch returned a valid *)
(* content, ends with a row for the URL, in every variant                  *)
C22_ValidFetchIsStored ==
    ( /\ variant \in Variants
      /\ ipc = "done"
      /\ html.arrives = "valid"
      /\ ~StoredBefore )
        => Exists(ItemUrl)

----------------------------------------------------------------------------
(* Properties of the protocol variant *)

(* C23: while the items of a listing page are dispatched concurrently, the *)
(* number of item tasks that have started processing (are inside "async    *)
(* with semaphore") and have not finished never exceeds                    *)
(* MAX_CONCURRENT_REQUESTS                                                 *)
C23_ConcurrencyBounded ==
    lpc # "none" => Cardinality(InFlight) <= MAX_CONCURRENT_REQUESTS

(* The limit is reached while a task still waits and another has finished *)
C23_Witness ==
    /\ lpc = "gather"
    /\ Cardinality(InFlight) = MAX_CONCURRENT_REQUESTS
    /\ \E i \in 1..Len(tasks) : tasks[i].pc = "waiting"
    /\ \E i \in 1..Len(tasks) : tasks[i].pc = "done"

(* C24: a run works on one listing page at a time: whenever run_scraper is *)
(* at its loop head or inside the fetch of a listing page, no item task of *)
(* the page before is waiting or running                                   *)
C24_ListingAfterItems ==
    lpc \in {"loop", "fetch"} => \A i \in 1..Len(tasks) : tasks[i].pc = "done"

(* The second listing page is being fetched after the tasks of the first *)
C24_Witness ==
    /\ lpc = "fetch"
    /\ page_count >= 1
    /\ tasks # <<>>

----------------------------------------------------------------------------
(* Properties of the fetch and of the phone lookups within the item step *)

(* Answers that are blocked or under the minimum length *)
Unusable == {"challenge_url", "challenge_content", "short", "tiny"}

(* C25: a content that is blocked (challenge words in the content or in    *)
(* the destination URL) or shorter than the minimum length is reported as  *)
(* empty by the fetch: the step goes no further than the fetch, and no     *)
(* Car is stored from it                                                   *)
C25_UnusableContentDropped ==
    (variant \in Variants /\ html.arrives \in Unusable)
        => /\ ipc \in {"begin", "fetch", "done"}
           /\ extracted = NotYet

(* C26: the phone lookups on the live page run only when                   *)
(* parse_car_detail_page found no phone number; a number it found is the   *)
(* one stored with the Car                                                 *)
C26_RevealOnlyWithoutStaticPhone ==
    (variant \in Variants /\ static_phone_number(html) # NoText)
        => /\ tried = {}
           /\ extracted # NotYet
                => extracted.car_data.phone_number = static_phone_number(html)

(* C27: the phone lookups are independent: when extract_phone_number has   *)
(* ended without a number, the endpoint call and the visible-phone lookup  *)
(* have both been attempted, whichever earlier step failed                 *)
C27_LaterStepsAttempted ==
    (variant = "enhanced" /\ ipc = "save" /\ phone_number = NoText)
        => {"endpoint", "visible"} \subseteq tried

(* C30: when extract_phone_number has returned, no page that it opened for *)
(* the phones endpoint is still open                                       *)
C30_PhonePageClosed ==
    (variant = "enhanced" /\ ipc \in {"save", "done"}) => open_pages = 0

----------------------------------------------------------------------------
(* Properties of the selector chain and of the retry delays *)

Range(q) == {q[i] : i \in 1..Len(q)}

(* The patterns that match at least one element of the page *)
Matching(page) ==
    {k \in 1..Len(selectors_to_try) : SelectLinks(page, selectors_to_try[k]) # <<>>}

(* C28: of the patterns of the listing extractor the first one, in         *)
(* priority order, that matches an element wins: the URLs returned are     *)
(* those of its matches, and the patterns after it add none                *)
C28_FirstPatternWins ==
    ( /\ extracted.by = "parse_car_listing_page"
      /\ html.other_text = "plain"
      /\ Matching(html) # {} )
        => LET first == CHOOSE k \in Matching(html) :
                            \A j \in Matching(html) : k <= j
           IN  Range(extracted.car_links)
                  = Range(SelectLinks(html, selectors_to_try[first]))

(* C29: at every attempt at which fetch_page has slept before a retry, the *)
(* delay after a challenge is strictly longer than the delay after a       *)
(* network error at the same attempt                                       *)
C29_BlockedBackoffLonger ==
    \A s \in slept : captcha_backoff(s.attempt) > error_backoff(s.attempt)

====
